---------------------------- MODULE Spec2Model ----------------------------
(***************************************************************************)
(* Configuration resolution of aomi-labs/product-mono:                     *)
(*   scripts2/configure.py  (placeholders, services, networks, key check)  *)
(*   scripts/configure.py   (the earlier copy: services, key check)        *)
(*   scripts/load_config.py (ConfigLoader: the older loader)               *)
(*                                                                         *)
(* Text is a sequence of one-character strings, so that the regular        *)
(* expression, rstrip, startswith and the brace test act on characters.    *)
(* A Python value is a tagged record: Str, Int, None, Dict or List.        *)
(***************************************************************************)
EXTENDS Integers, Sequences, FiniteSets, TLC

VARIABLES
    env_key,            \* the CLI's environment argument, lower-cased
    raw,                \* the parsed config.yaml: section label -> section
    environ,            \* os.environ: variable name -> value
    op,                 \* the operation that has run ("start": none yet)
    value,              \* the text given to a placeholder substitution
    substituted,        \* the text a placeholder substitution returned
    exports,            \* the service exports an operation produced
    resolved,           \* the network map an operation produced
    vars_found,         \* the names key discovery returned
    required,           \* check_required_keys' required set
    missing_required,   \* check_required_keys' first list
    missing_optional,   \* check_required_keys' second list
    urls,               \* the derived service URLs an operation produced
    keys_ok,            \* check_api_keys' result
    raised              \* the operation an exception escaped from ("": none)

vars == <<env_key, raw, environ, op, value, substituted, exports, resolved,
          vars_found, required, missing_required, missing_optional, urls, keys_ok,
          raised>>

-----------------------------------------------------------------------------
(* Bounds of the model *)

\* longest character-level template enumerated in InitSubst
MaxTplLen == 5
\* most networks a curated document declares
MaxNets == 2

-----------------------------------------------------------------------------
(* Python values *)

StrVal(s) == [t |-> "str", v |-> s]
IntVal(n) == [t |-> "int", v |-> n]
NoneVal == [t |-> "none"]
DictVal(f) == [t |-> "dict", v |-> f]
ListVal(items) == [t |-> "list", v |-> items]

\* an empty Python dict: a function with the empty domain
EmptyDict == [k \in {} |-> NoneVal]

isinstance(x, type) == x.t = type

\* d.get(key, default) on a dict's mapping
DictGet(d, key, default) == IF key \in DOMAIN d THEN d[key] ELSE default

-----------------------------------------------------------------------------
(* Text constants of the source *)

ANTHROPIC_API_KEY == <<"A","N","T","H","R","O","P","I","C","_","A","P","I","_","K","E","Y">>
BRAVE_SEARCH_API_KEY == <<"B","R","A","V","E","_","S","E","A","R","C","H","_","A","P","I","_","K","E","Y">>
ETHERSCAN_API_KEY == <<"E","T","H","E","R","S","C","A","N","_","A","P","I","_","K","E","Y">>
ZEROX_API_KEY == <<"Z","E","R","O","X","_","A","P","I","_","K","E","Y">>
ALCHEMY_API_KEY == <<"A","L","C","H","E","M","Y","_","A","P","I","_","K","E","Y">>
ALCHEMY_SUFFIX == <<"_","A","L","C","H","E","M","Y","_","A","P","I","_","K","E","Y">>
TESTNET == <<"t","e","s","t","n","e","t">>
DEV_TESTNET_URL == <<"h","t","t","p",":","/","/","1","2","7",".","0",".","0",".","1",":","8","5","4","5">>
PROD_TESTNET_URL == <<"h","t","t","p",":","/","/","a","n","v","i","l",":","8","5","4","5">>
DEV == <<"d","e","v">>
DEVELOPMENT == <<"d","e","v","e","l","o","p","m","e","n","t">>
PROD == <<"p","r","o","d">>
PRODUCTION == <<"p","r","o","d","u","c","t","i","o","n">>
MCP_SERVER_HOST == <<"M","C","P","_","S","E","R","V","E","R","_","H","O","S","T">>
MCP_SERVER_PORT == <<"M","C","P","_","S","E","R","V","E","R","_","P","O","R","T">>
BACKEND_HOST == <<"B","A","C","K","E","N","D","_","H","O","S","T">>
BACKEND_PORT == <<"B","A","C","K","E","N","D","_","P","O","R","T">>
FRONTEND_HOST == <<"F","R","O","N","T","E","N","D","_","H","O","S","T">>
FRONTEND_PORT == <<"F","R","O","N","T","E","N","D","_","P","O","R","T">>
ANVIL_HOST == <<"A","N","V","I","L","_","H","O","S","T">>
ANVIL_PORT == <<"A","N","V","I","L","_","P","O","R","T">>
MCP_SERVER_URL == <<"M","C","P","_","S","E","R","V","E","R","_","U","R","L">>
BACKEND_URL == <<"B","A","C","K","E","N","D","_","U","R","L">>
FRONTEND_URL == <<"F","R","O","N","T","E","N","D","_","U","R","L">>
ANVIL_URL == <<"A","N","V","I","L","_","U","R","L">>
LOOPBACK == <<"1","2","7",".","0",".","0",".","1">>
ANY_ADDR == <<"0",".","0",".","0",".","0">>
LOCALHOST == <<"l","o","c","a","l","h","o","s","t">>
HTTP == <<"h","t","t","p",":","/","/">>
HTTP_LOCALHOST == <<"h","t","t","p",":","/","/","l","o","c","a","l","h","o","s","t",":">>
P5000 == <<"5","0","0","0">>
P8080 == <<"8","0","8","0">>
P3000 == <<"3","0","0","0">>
P8545 == <<"8","5","4","5">>
NONE_TEXT == <<"N","o","n","e">>

\* the characters of the model in ASCII order
AsciiOrder == <<" ","$","'",",","-",".","/","0","1","2","3","4","5","6","7","8","9",":","A","B","C","D","E","F","G","H","I","J","K","L","M","N","O","P","Q","R","S","T","U","V","W","X","Y","Z","[","]","_","a","b","c","d","e","f","g","h","i","j","k","l","m","n","o","p","q","r","s","t","u","v","w","x","y","z","{","}">>
LowerCase == <<"a","b","c","d","e","f","g","h","i","j","k","l","m","n","o","p","q","r","s","t","u","v","w","x","y","z">>
UpperCase == <<"A","B","C","D","E","F","G","H","I","J","K","L","M","N","O","P","Q","R","S","T","U","V","W","X","Y","Z">>
Digits == <<"0","1","2","3","4","5","6","7","8","9">>

-----------------------------------------------------------------------------
(* Python text operations *)

\* ord(c), up to an order-preserving renumbering
Ord(c) == CHOOSE i \in 1..Len(AsciiOrder) : AsciiOrder[i] = c

\* c.upper() of one character
UpperChar(c) ==
    IF \E i \in 1..Len(LowerCase) : LowerCase[i] = c
    THEN UpperCase[CHOOSE i \in 1..Len(LowerCase) : LowerCase[i] = c]
    ELSE c

\* s.upper()
RECURSIVE upper(_)
upper(s) == IF Len(s) = 0 THEN <<>> ELSE <<UpperChar(s[1])>> \o upper(Tail(s))

\* s.startswith(prefix)
startswith(s, prefix) ==
    /\ Len(prefix) <= Len(s)
    /\ SubSeq(s, 1, Len(prefix)) = prefix

\* c in s, for one character
Contains(s, c) == \E i \in 1..Len(s) : s[i] = c

\* s.rstrip("/")
RECURSIVE rstrip_slash(_)
rstrip_slash(s) ==
    IF Len(s) > 0 /\ s[Len(s)] = "/"
    THEN rstrip_slash(SubSeq(s, 1, Len(s) - 1))
    ELSE s

\* str(n) of a non-negative integer
RECURSIVE IntText(_)
IntText(n) ==
    IF n < 10 THEN <<Digits[n + 1]>>
    ELSE IntText(n \div 10) \o <<Digits[(n % 10) + 1]>>

\* repr(x) of a list item: a string in single quotes, anything else as str()
RECURSIVE PyStr(_)
RECURSIVE JoinRepr(_)
PyRepr(x) == IF x.t = "str" THEN <<"'">> \o x.v \o <<"'">> ELSE PyStr(x)

JoinRepr(items) ==
    IF Len(items) = 0 THEN <<>>
    ELSE IF Len(items) = 1 THEN PyRepr(items[1])
    ELSE PyRepr(items[1]) \o <<",", " ">> \o JoinRepr(Tail(items))

\* str(x)
PyStr(x) ==
    CASE x.t = "str" -> x.v
      [] x.t = "int" -> IntText(x.v)
      [] x.t = "none" -> NONE_TEXT
      [] x.t = "list" -> <<"[">> \o JoinRepr(x.v) \o <<"]">>
      [] OTHER -> <<"{", "}">>    \* the empty dict

\* a < b in Python's string order
RECURSIVE TextLess(_, _)
TextLess(a, b) ==
    IF Len(a) = 0 THEN Len(b) > 0
    ELSE IF Len(b) = 0 THEN FALSE
    ELSE IF a[1] = b[1] THEN TextLess(Tail(a), Tail(b))
    ELSE Ord(a[1]) < Ord(b[1])

\* sorted(S) of a set of texts
RECURSIVE sorted(_)
sorted(S) ==
    IF S = {} THEN <<>>
    ELSE LET least == CHOOSE x \in S : \A y \in S \ {x} : TextLess(x, y)
         IN <<least>> \o sorted(S \ {least})

\* os.getenv(var, default)
getenv(env, var, default) == IF var \in DOMAIN env THEN env[var] ELSE default

\* os.getenv(var): unset is Python's None
Unset == <<"<unset>">>
getenv1(env, var) == getenv(env, var, Unset)

\* bool(x) of a text or None
Truthy(x) == x # Unset /\ Len(x) > 0

-----------------------------------------------------------------------------
(* PLACEHOLDER_PATTERN = \$\{([^}]+)\}|\{\$([^}]+)\} *)

NoMatch == [found |-> FALSE]

\* the least j >= k with s[j] = "}", or 0
FirstClose(s, k) ==
    IF \E j \in k..Len(s) : s[j] = "}"
    THEN CHOOSE j \in k..Len(s) : s[j] = "}" /\ \A h \in k..(j - 1) : s[h] # "}"
    ELSE 0

\* a match of opener, [^}]+ and "}" that starts at position i
MatchOpener(s, i, c1, c2) ==
    IF i + 3 <= Len(s) /\ s[i] = c1 /\ s[i + 1] = c2
    THEN LET j == FirstClose(s, i + 2)
         IN IF j >= i + 3
            THEN [found |-> TRUE, start |-> i, end |-> j,
                  group0 |-> SubSeq(s, i, j), var |-> SubSeq(s, i + 2, j - 1)]
            ELSE NoMatch
    ELSE NoMatch

\* PLACEHOLDER_PATTERN.match at position i: ${NAME}, else {$NAME}
PatternMatchAt_mutant_dollar_only(s, i) == MatchOpener(s, i, "$", "{")

PatternMatchAt(s, i) ==
    LET first == MatchOpener(s, i, "$", "{")
    IN IF first.found THEN first ELSE MatchOpener(s, i, "{", "$")

\* PLACEHOLDER_PATTERN.finditer(s) from position i: leftmost, non-overlapping
RECURSIVE FinditerFrom(_, _)
FinditerFrom(s, i) ==
    IF i > Len(s) THEN <<>>
    ELSE LET m == PatternMatchAt(s, i)
         IN IF m.found THEN <<m>> \o FinditerFrom(s, m.end + 1)
            ELSE FinditerFrom(s, i + 1)

finditer(s) == FinditerFrom(s, 1)

\* substitute_placeholders' repl: the variable's value, else the token as written
repl_mutant_rewrap(env, m) == getenv(env, m.var, <<"$", "{">> \o m.var \o <<"}">>)
repl(env, m) == getenv(env, m.var, m.group0)

\* PLACEHOLDER_PATTERN.sub(repl, s) from position i
RECURSIVE PatternSubFrom(_, _, _)
PatternSubFrom(env, s, i) ==
    IF i > Len(s) THEN <<>>
    ELSE LET m == PatternMatchAt(s, i)
         IN IF m.found THEN repl(env, m) \o PatternSubFrom(env, s, m.end + 1)
            ELSE <<s[i]>> \o PatternSubFrom(env, s, i + 1)

substitute_placeholders(env, text) == PatternSubFrom(env, text, 1)

\* ConfigLoader.substitute_env_variables: only {$NAME}; unset gives ${NAME}
replace_var(env, m) == getenv(env, m.var, <<"$", "{">> \o m.var \o <<"}">>)

RECURSIVE LegacySubFrom(_, _, _)
LegacySubFrom(env, s, i) ==
    IF i > Len(s) THEN <<>>
    ELSE LET m == MatchOpener(s, i, "{", "$")
         IN IF m.found THEN replace_var(env, m) \o LegacySubFrom(env, s, m.end + 1)
            ELSE <<s[i]>> \o LegacySubFrom(env, s, i + 1)

substitute_env_variables(env, text) == LegacySubFrom(env, text, 1)

-----------------------------------------------------------------------------
(* scripts2/configure.py *)

ENV_LABELS ==
    (DEV :> DEVELOPMENT) @@ (DEVELOPMENT :> DEVELOPMENT) @@
    (PROD :> PRODUCTION) @@ (PRODUCTION :> PRODUCTION)

OPTIONAL_KEYS == {ETHERSCAN_API_KEY, ZEROX_API_KEY}

\* load_config(env_key): the document's section for the environment, else {}
load_config(doc, key) == DictGet(doc, DictGet(ENV_LABELS, key, key), EmptyDict)

\* the overrides table of resolve_service_exports
overrides ==
    (MCP_SERVER_HOST :> <<"mcp_server", "host", LOOPBACK>>) @@
    (MCP_SERVER_PORT :> <<"mcp_server", "port", P5000>>) @@
    (BACKEND_HOST :> <<"backend", "host", ANY_ADDR>>) @@
    (BACKEND_PORT :> <<"backend", "port", P8080>>) @@
    (FRONTEND_HOST :> <<"frontend", "host", LOCALHOST>>) @@
    (FRONTEND_PORT :> <<"frontend", "port", P3000>>) @@
    (ANVIL_HOST :> <<"anvil", "host", LOOPBACK>>) @@
    (ANVIL_PORT :> <<"anvil", "port", P8545>>)

\* the loop of resolve_service_exports over a table of (service, field, fallback)
ExportsFrom(table, services) ==
    [env_var \in DOMAIN table |->
        PyStr(DictGet(DictGet(services, table[env_var][1], EmptyDict),
                      table[env_var][2], StrVal(table[env_var][3])))]

resolve_service_exports(key, config) ==
    LET services == DictGet(config, "services", EmptyDict)
        exported == ExportsFrom(overrides, services)
    IN IF startswith(key, PROD) THEN EmptyDict ELSE exported

\* alchemy_key_for(network): the network's own key if non-empty, else the generic one
alchemy_key_for_mutant_generic_first(env, network) ==
    LET generic == getenv1(env, ALCHEMY_API_KEY)
    IN IF Truthy(generic) THEN generic
       ELSE getenv1(env, upper(network) \o ALCHEMY_SUFFIX)

alchemy_key_for(env, network) ==
    LET specific == getenv1(env, upper(network) \o ALCHEMY_SUFFIX)
    IN IF Truthy(specific) THEN specific ELSE getenv1(env, ALCHEMY_API_KEY)

\* the text build_networks and extract_placeholder_vars read from an entry
EntryText(entry) ==
    PyStr(IF isinstance(entry, "dict") THEN DictGet(entry.v, "url", NoneVal)
          ELSE StrVal(PyStr(entry)))

Skipped == [kept |-> FALSE]

\* one pass of build_networks' loop body: the entry's URL, or skipped
NetworkEntry_mutant_prefix_only(key, env, name, entry) ==
    LET url == substitute_placeholders(env, EntryText(entry))
        inject == startswith(key, PROD) /\ name # TESTNET
        apikey == alchemy_key_for(env, name)
        final == IF inject THEN rstrip_slash(url) \o <<"/">> \o apikey ELSE url
    IN IF inject /\ ~Truthy(apikey) THEN Skipped
       ELSE IF startswith(final, <<"$", "{">>) THEN Skipped
       ELSE [kept |-> TRUE, url |-> final]

NetworkEntry_mutant_no_credential(key, env, name, entry) ==
    LET url == substitute_placeholders(env, EntryText(entry))
        inject == startswith(key, PROD) /\ name # TESTNET
        apikey == alchemy_key_for(env, name)
        final == IF inject /\ Truthy(apikey) THEN rstrip_slash(url) \o <<"/">> \o apikey ELSE url
    IN IF Contains(final, "{") /\ Contains(final, "}") THEN Skipped
       ELSE [kept |-> TRUE, url |-> final]

\* the credential joined for every network but testnet, in any environment
NetworkEntry_mutant_inject_everywhere(key, env, name, entry) ==
    LET url == substitute_placeholders(env, EntryText(entry))
        inject == name # TESTNET
        apikey == alchemy_key_for(env, name)
        final == IF inject THEN rstrip_slash(url) \o <<"/">> \o apikey ELSE url
    IN IF inject /\ ~Truthy(apikey) THEN Skipped
       ELSE IF Contains(final, "{") /\ Contains(final, "}") THEN Skipped
       ELSE [kept |-> TRUE, url |-> final]

NetworkEntry(key, env, name, entry) ==
    LET url == substitute_placeholders(env, EntryText(entry))
        inject == startswith(key, PROD) /\ name # TESTNET
        apikey == alchemy_key_for(env, name)
        final == IF inject THEN rstrip_slash(url) \o <<"/">> \o apikey ELSE url
    IN IF inject /\ ~Truthy(apikey) THEN Skipped
       ELSE IF Contains(final, "{") /\ Contains(final, "}") THEN Skipped
       ELSE [kept |-> TRUE, url |-> final]

\* the fallback of build_networks
TestnetFallback_mutant_loopback(key) == DEV_TESTNET_URL

TestnetFallback(key) == IF startswith(key, DEV) THEN DEV_TESTNET_URL ELSE PROD_TESTNET_URL

\* build_networks with the loop given up at the first entry it cannot use
build_networks_mutant_abort(key, env, config) ==
    LET networks == DictGet(config, "networks", EmptyDict)
        all == \A name \in DOMAIN networks : NetworkEntry(key, env, name, networks[name]).kept
        looped == [name \in {n \in DOMAIN networks : all} |->
                      NetworkEntry(key, env, name, networks[name]).url]
    IN IF TESTNET \in DOMAIN looped /\ Len(looped[TESTNET]) > 0
       THEN looped
       ELSE [name \in DOMAIN looped \cup {TESTNET} |->
                IF name = TESTNET THEN TestnetFallback(key) ELSE looped[name]]

build_networks(key, env, config) ==
    LET networks == DictGet(config, "networks", EmptyDict)
        kept == {name \in DOMAIN networks : NetworkEntry(key, env, name, networks[name]).kept}
        looped == [name \in kept |-> NetworkEntry(key, env, name, networks[name]).url]
    IN IF TESTNET \in DOMAIN looped /\ Len(looped[TESTNET]) > 0
       THEN looped
       ELSE [name \in kept \cup {TESTNET} |->
                IF name = TESTNET THEN TestnetFallback(key) ELSE looped[name]]

\* the names of finditer's matches
RECURSIVE MatchVars(_)
MatchVars(matches) ==
    IF Len(matches) = 0 THEN {} ELSE {matches[1].var} \cup MatchVars(Tail(matches))

extract_placeholder_vars(config) ==
    LET networks == DictGet(config, "networks", EmptyDict)
    IN UNION {MatchVars(finditer(EntryText(networks[name]))) : name \in DOMAIN networks}

\* check_required_keys' required set
RequiredKeys_mutant_alchemy_always(key, config) ==
    {ANTHROPIC_API_KEY, BRAVE_SEARCH_API_KEY, ETHERSCAN_API_KEY, ALCHEMY_API_KEY}
        \cup extract_placeholder_vars(config)

RequiredKeys(key, config) ==
    {ANTHROPIC_API_KEY, BRAVE_SEARCH_API_KEY, ETHERSCAN_API_KEY}
        \cup (IF startswith(key, PROD) THEN {ALCHEMY_API_KEY} ELSE {})
        \cup extract_placeholder_vars(config)

\* the loops of check_required_keys: the keys without a value, in sorted order
MissingKeys_mutant_unset_only(env, keys) ==
    SelectSeq(sorted(keys), LAMBDA k : getenv1(env, k) = Unset)

MissingKeys(env, keys) ==
    SelectSeq(sorted(keys), LAMBDA k : ~Truthy(getenv1(env, k)))

-----------------------------------------------------------------------------
(* scripts/configure.py *)

DEFAULT_NETWORK_ENV ==
    (BACKEND_HOST :> <<"backend", "host", LOOPBACK>>) @@
    (BACKEND_PORT :> <<"backend", "port", P8080>>) @@
    (FRONTEND_HOST :> <<"frontend", "host", LOOPBACK>>) @@
    (FRONTEND_PORT :> <<"frontend", "port", P3000>>)

resolve_network_exports(key, config) ==
    LET services == DictGet(config, "services", EmptyDict)
        exported == ExportsFrom(DEFAULT_NETWORK_ENV, services)
    IN IF startswith(key, PROD) THEN EmptyDict ELSE exported

-----------------------------------------------------------------------------
(* scripts/load_config.py: ConfigLoader *)

\* ConfigLoader.__init__: the environment, normalized
LoaderEnv(environment) ==
    IF environment = DEV THEN DEVELOPMENT
    ELSE IF environment = PROD THEN PRODUCTION
    ELSE environment

get_service_config_mutant_default(services, service_name, key, default) == default

get_service_config(services, service_name, key, default) ==
    DictGet(DictGet(services, service_name, EmptyDict), key, default)

\* the defaults export_ports_only chooses for the environment
PortDefaults_mutant_dev_only(env) ==
    [host |-> LOOPBACK, mcp_port |-> 5000, backend_port |-> 8080, frontend_port |-> 3000]

PortDefaults(env) ==
    IF env = PRODUCTION
    THEN [host |-> ANY_ADDR, mcp_port |-> 5001, backend_port |-> 8081, frontend_port |-> 3001]
    ELSE [host |-> LOOPBACK, mcp_port |-> 5000, backend_port |-> 8080, frontend_port |-> 3000]

\* export_ports_only's configs, each value as the export line prints it
PortConfigs_mutant_with_url(env, services) ==
    LET configs == ExportsFrom(overrides, services)
    IN configs @@ (ANVIL_URL :> HTTP \o configs[ANVIL_HOST] \o <<":">> \o configs[ANVIL_PORT])

PortConfigs(env, services) ==
    LET d == PortDefaults(env)
        cfg(service, field, default) ==
            PyStr(get_service_config(services, service, field, default))
    IN (MCP_SERVER_HOST :> cfg("mcp_server", "host", StrVal(d.host))) @@
       (MCP_SERVER_PORT :> cfg("mcp_server", "port", IntVal(d.mcp_port))) @@
       (BACKEND_HOST :> cfg("backend", "host", StrVal(d.host))) @@
       (BACKEND_PORT :> cfg("backend", "port", IntVal(d.backend_port))) @@
       (FRONTEND_HOST :> cfg("frontend", "host",
            StrVal(IF env = DEVELOPMENT THEN LOCALHOST ELSE d.host))) @@
       (FRONTEND_PORT :> cfg("frontend", "port", IntVal(d.frontend_port))) @@
       (ANVIL_HOST :> cfg("anvil", "host", StrVal(LOOPBACK))) @@
       (ANVIL_PORT :> cfg("anvil", "port", IntVal(8545)))

\* the derived URLs of export_ports_only and export_env_vars
ServiceUrls(configs) ==
    (MCP_SERVER_URL :> HTTP \o configs[MCP_SERVER_HOST] \o <<":">> \o configs[MCP_SERVER_PORT]) @@
    (BACKEND_URL :> HTTP_LOCALHOST \o configs[BACKEND_PORT]) @@
    (FRONTEND_URL :> HTTP_LOCALHOST \o configs[FRONTEND_PORT]) @@
    (ANVIL_URL :> HTTP \o configs[ANVIL_HOST] \o <<":">> \o configs[ANVIL_PORT])

\* export_env_vars: the configs as written to os.environ, and the URLs
export_env_vars(services) ==
    LET cfg(service, field, default) ==
            PyStr(get_service_config(services, service, field, default))
        configs ==
            (MCP_SERVER_HOST :> cfg("mcp_server", "host", StrVal(LOOPBACK))) @@
            (MCP_SERVER_PORT :> cfg("mcp_server", "port", IntVal(5000))) @@
            (BACKEND_HOST :> cfg("backend", "host", StrVal(ANY_ADDR))) @@
            (BACKEND_PORT :> cfg("backend", "port", IntVal(8080))) @@
            (FRONTEND_HOST :> cfg("frontend", "host", StrVal(LOCALHOST))) @@
            (FRONTEND_PORT :> cfg("frontend", "port", IntVal(3000))) @@
            (ANVIL_HOST :> cfg("anvil", "host", StrVal(LOOPBACK))) @@
            (ANVIL_PORT :> cfg("anvil", "port", IntVal(8545)))
    IN [configs |-> configs, urls |-> ServiceUrls(configs)]

\* one pass of get_network_urls_json's loop body
LoaderEntry(env, entry) ==
    IF isinstance(entry, "dict") /\ "url" \in DOMAIN entry.v
    THEN LET url == substitute_env_variables(env, PyStr(entry.v["url"]))
         IN IF ~startswith(url, <<"$", "{">>)
               /\ url # <<"$", "{">> \o PyStr(entry.v["url"]) \o <<"}">>
            THEN [kept |-> TRUE, url |-> url] ELSE Skipped
    ELSE IF isinstance(entry, "str")
    THEN LET url == substitute_env_variables(env, entry.v)
         IN IF ~startswith(url, <<"$", "{">>)
            THEN [kept |-> TRUE, url |-> url] ELSE Skipped
    ELSE Skipped

get_network_urls_json(env, environment, doc) ==
    LET env_config == DictGet(doc, environment, EmptyDict)
        \* env_config.get on None raises inside the try: the except returns the fallback
        networks == IF "t" \in DOMAIN env_config THEN EmptyDict
                    ELSE DictGet(env_config, "networks", EmptyDict)
        kept == {name \in DOMAIN networks : LoaderEntry(env, networks[name]).kept}
    IN IF DOMAIN networks = {} THEN (TESTNET :> DEV_TESTNET_URL)
       ELSE [name \in kept \cup {TESTNET} |->
                IF name \in kept THEN LoaderEntry(env, networks[name]).url
                ELSE DEV_TESTNET_URL]

\* check_api_keys: only ANTHROPIC_API_KEY is required
check_api_keys(env) == Truthy(getenv1(env, ANTHROPIC_API_KEY))

-----------------------------------------------------------------------------
(* Inputs: documents and environment snapshots *)

FOO == <<"f","o","o">>
CUSTOM == <<"c","u","s","t","o","m">>
MY_SECRET == <<"M","Y","_","S","E","C","R","E","T">>
FOO_ALCHEMY_API_KEY == <<"F","O","O","_","A","L","C","H","E","M","Y","_","A","P","I","_","K","E","Y">>
FOO_TEMPLATE == <<"h","t","t","p","s",":","/","/","f","o","o",".","e","x","a","m","p","l","e","/">>
FOO_RESULT == <<"h","t","t","p","s",":","/","/","f","o","o",".","e","x","a","m","p","l","e","/","a","b","c","1","2","3">>
CUSTOM_TEMPLATE == <<"$","{","M","Y","_","S","E","C","R","E","T","}","/","x">>
MID_TEMPLATE == <<"h","t","t","p","s",":","/","/","r","p","c","/","{","$","M","Y","_","S","E","C","R","E","T","}">>
ABC123 == <<"a","b","c","1","2","3">>
GENERIC_KEY == <<"k","9">>
SECRET_VALUE == <<"h","t","t","p","s",":","/","/","s">>
HOST_DECLARED == <<"1","0",".","0",".","0",".","9">>
T9999 == <<"9","9","9","9">>
DECOY_URL == <<"d","e","c","o","y">>

EnvKeys == {DEV, DEVELOPMENT, PROD, PRODUCTION}

\* the arguments the network documents are resolved under: one short, one long
NetworkEnvKeys == {DEV, PRODUCTION}

\* every snapshot that sets each variable of opts to one of its values, or leaves it unset
Environs(opts) ==
    LET values == UNION {opts[k] : k \in DOMAIN opts}
    IN {e \in UNION {[S -> values] : S \in SUBSET DOMAIN opts} :
            \A k \in DOMAIN e : e[k] \in opts[k]}

\* the section of the other environment, which no resolution may read
DecoySection ==
    ("services" :> ("backend" :> (("port" :> IntVal(1111)) @@ ("host" :> StrVal(DECOY_URL))))) @@
    ("networks" :> ((TESTNET :> StrVal(DECOY_URL)) @@ (FOO :> StrVal(DECOY_URL))))

OtherLabel(label) == IF label = DEVELOPMENT THEN PRODUCTION ELSE DEVELOPMENT

\* a config.yaml with the given section for the environment of key
DocumentFor(key, section) ==
    (ENV_LABELS[key] :> section) @@ (OtherLabel(ENV_LABELS[key]) :> DecoySection)

\* a config.yaml with no section for the environment of key
DocumentWithout(key) == (OtherLabel(ENV_LABELS[key]) :> DecoySection)

\* a config.yaml whose section for the environment is empty ("development:"
\* with nothing under it): yaml.safe_load gives the label the value None
DocumentWithNullSection(key) == DocumentFor(key, NoneVal)

\* what a service may declare
ServiceDecls ==
    {EmptyDict,
     ("host" :> StrVal(HOST_DECLARED)),
     ("port" :> IntVal(9999)),
     ("host" :> StrVal(HOST_DECLARED)) @@ ("port" :> IntVal(9999))}

ServiceNames == {"mcp_server", "backend", "frontend", "anvil"}

ServiceSections ==
    {EmptyDict} \cup
    {("services" :> s) : s \in UNION {[S -> ServiceDecls] : S \in SUBSET ServiceNames}}

\* what a network may declare: a URL, a structure with or without url, or something else
NetworkEntries ==
    {StrVal(FOO_TEMPLATE),
     StrVal(FOO_TEMPLATE \o <<"/">>),
     StrVal(<<>>),
     DictVal("url" :> StrVal(CUSTOM_TEMPLATE)),
     DictVal("url" :> StrVal(MID_TEMPLATE)),
     DictVal("rpc" :> StrVal(CUSTOM_TEMPLATE)),
     ListVal(<<StrVal(CUSTOM_TEMPLATE)>>),
     IntVal(5)}

NetworkNames == {TESTNET, FOO, CUSTOM}

NetworkSections ==
    {("networks" :> n) :
        n \in UNION {[S -> NetworkEntries] :
                        S \in {T \in SUBSET NetworkNames : Cardinality(T) <= MaxNets}}}

NetworkEnvirons ==
    Environs((ALCHEMY_API_KEY :> {<<>>, GENERIC_KEY}) @@
             (FOO_ALCHEMY_API_KEY :> {<<>>, ABC123}) @@
             (MY_SECRET :> {SECRET_VALUE}))

\* a network whose URL is the anvil URL the loader derives
ANVIL_TEMPLATE == <<"{", "$">> \o ANVIL_URL \o <<"}">>

\* a URL with a path parameter in braces, which is no placeholder token
BRACES_TEMPLATE == <<"h","t","t","p",":","/","/","h","/","{","i","d","}">>

KeySections ==
    {EmptyDict,
     ("networks" :> ((FOO :> StrVal(BRACES_TEMPLATE)) @@ (TESTNET :> StrVal(BRACES_TEMPLATE)))),
     ("networks" :> (FOO :> DictVal("url" :> StrVal(ANVIL_TEMPLATE)))),
     ("networks" :> (CUSTOM :> DictVal("url" :> StrVal(CUSTOM_TEMPLATE)))),
     ("networks" :> ((FOO :> StrVal(MID_TEMPLATE)) @@ (TESTNET :> StrVal(CUSTOM_TEMPLATE))))}

KeyEnvirons ==
    Environs((ANTHROPIC_API_KEY :> {<<>>, ABC123}) @@
             (BRAVE_SEARCH_API_KEY :> {ABC123}) @@
             (ETHERSCAN_API_KEY :> {<<>>, ABC123}) @@
             (ZEROX_API_KEY :> {<<>>, ABC123}) @@
             (ALCHEMY_API_KEY :> {GENERIC_KEY}) @@
             (MY_SECRET :> {SECRET_VALUE}))

\* the characters of the enumerated templates
Sigma == {"$", "{", "}", "A"}
NAME_A == <<"A">>
VALUE_V == <<"v">>
TOKEN_A == <<"{", "$", "A", "}">>

Templates == UNION {[1..n -> Sigma] : n \in 0..MaxTplLen}

TemplateEnvirons ==
    Environs((NAME_A :> {<<>>, VALUE_V, TOKEN_A}) @@ (ALCHEMY_API_KEY :> {GENERIC_KEY}))

\* longer templates: two tokens, one of each syntax, with text around them
TWO_TOKENS == <<"a", "$", "{", "A", "}", "/", "{", "$", "M", "Y", "_", "S", "E", "C", "R", "E", "T", "}", "/">>
CuratedTemplates == {CUSTOM_TEMPLATE, MID_TEMPLATE, TWO_TOKENS, FOO_TEMPLATE}

CuratedEnvirons ==
    Environs((NAME_A :> {<<>>, VALUE_V}) @@ (MY_SECRET :> {<<>>, SECRET_VALUE}) @@
             (ALCHEMY_API_KEY :> {GENERIC_KEY}))

-----------------------------------------------------------------------------
(* Initial states *)

NoOutput ==
    /\ op = "start"
    /\ value = <<>>
    /\ substituted = <<>>
    /\ exports = EmptyDict
    /\ urls = EmptyDict
    /\ resolved = EmptyDict
    /\ vars_found = {}
    /\ required = {}
    /\ missing_required = <<>>
    /\ missing_optional = <<>>
    /\ keys_ok = FALSE
    /\ raised = ""

InitServices ==
    /\ env_key \in EnvKeys
    /\ \E section \in ServiceSections : raw = DocumentFor(env_key, section)
    /\ environ = EmptyDict
    /\ NoOutput

InitNetworks ==
    /\ env_key \in NetworkEnvKeys
    /\ \E section \in NetworkSections : raw = DocumentFor(env_key, section)
    /\ environ \in NetworkEnvirons
    /\ NoOutput

InitKeys ==
    /\ env_key \in EnvKeys
    /\ \E section \in KeySections : raw = DocumentFor(env_key, section)
    /\ environ \in KeyEnvirons
    /\ NoOutput

InitNoSection ==
    /\ env_key \in EnvKeys
    /\ raw = DocumentWithout(env_key)
    /\ environ \in NetworkEnvirons
    /\ NoOutput

InitNullSection ==
    /\ env_key \in EnvKeys
    /\ raw = DocumentWithNullSection(env_key)
    /\ environ \in NetworkEnvirons
    /\ NoOutput

Init == InitServices \/ InitNetworks \/ InitKeys \/ InitNoSection \/ InitNullSection

InitEnumerated ==
    /\ env_key \in {DEV, PROD}
    /\ \E tpl \in Templates :
          raw = DocumentFor(env_key, ("networks" :> (FOO :> StrVal(tpl))))
    /\ environ \in TemplateEnvirons
    /\ NoOutput

InitCurated ==
    /\ env_key \in {DEV, PROD}
    /\ \E tpl \in CuratedTemplates, name \in {FOO, TESTNET} :
          raw = DocumentFor(env_key, ("networks" :> (name :> DictVal("url" :> StrVal(tpl)))))
    /\ environ \in CuratedEnvirons
    /\ NoOutput

InitSubst == InitEnumerated \/ InitCurated

-----------------------------------------------------------------------------
(* Operations: each runs once, on the inputs of the initial state *)

Inputs == <<env_key, raw, environ>>

\* the section is None: config.get(...) raises AttributeError
IsNone(config) == "t" \in DOMAIN config

\* the networks of the environment's section
Networks ==
    IF IsNone(load_config(raw, env_key)) THEN EmptyDict
    ELSE DictGet(load_config(raw, env_key), "networks", EmptyDict)

\* the operation returned, or an exception escaped from it
Outcome(name, fails) ==
    /\ op' = (IF fails THEN "failed" ELSE name)
    /\ raised' = (IF fails THEN name ELSE "")

\* scripts2/configure.py: substitute_placeholders on a network's text
SubstitutePlaceholders ==
    /\ op = "start"
    /\ \E name \in DOMAIN Networks :
          /\ value' = EntryText(Networks[name])
          /\ substituted' = substitute_placeholders(environ, EntryText(Networks[name]))
    /\ Outcome("substitute_placeholders", FALSE)
    /\ UNCHANGED <<Inputs, exports, urls, resolved, vars_found, required,
                   missing_required, missing_optional, keys_ok>>

\* scripts/load_config.py: substitute_env_variables on a network's text
SubstituteEnvVariables ==
    /\ op = "start"
    /\ \E name \in DOMAIN Networks :
          /\ value' = EntryText(Networks[name])
          /\ substituted' = substitute_env_variables(environ, EntryText(Networks[name]))
    /\ Outcome("substitute_env_variables", FALSE)
    /\ UNCHANGED <<Inputs, exports, urls, resolved, vars_found, required,
                   missing_required, missing_optional, keys_ok>>

\* scripts2/configure.py: extract_placeholder_vars
ExtractPlaceholderVars ==
    /\ op = "start"
    /\ LET config == load_config(raw, env_key)
       IN /\ vars_found' = (IF IsNone(config) THEN vars_found
                            ELSE extract_placeholder_vars(config))
          /\ Outcome("extract_placeholder_vars", IsNone(config))
    /\ UNCHANGED <<Inputs, value, substituted, exports, urls, resolved, required,
                   missing_required, missing_optional, keys_ok>>

\* scripts2/configure.py: main --chain-json
BuildNetworks ==
    /\ op = "start"
    /\ LET config == load_config(raw, env_key)
       IN /\ resolved' = (IF IsNone(config) THEN resolved
                          ELSE build_networks(env_key, environ, config))
          /\ Outcome("build_networks", IsNone(config))
    /\ UNCHANGED <<Inputs, value, substituted, exports, urls, vars_found, required,
                   missing_required, missing_optional, keys_ok>>

\* scripts2/configure.py: main --export-network-env
ResolveServiceExports ==
    /\ op = "start"
    /\ LET config == load_config(raw, env_key)
       IN /\ exports' = (IF IsNone(config) THEN exports
                         ELSE resolve_service_exports(env_key, config))
          /\ Outcome("resolve_service_exports", IsNone(config))
    /\ UNCHANGED <<Inputs, value, substituted, urls, resolved, vars_found, required,
                   missing_required, missing_optional, keys_ok>>

\* scripts/configure.py: main --export-network-env
ResolveNetworkExports ==
    /\ op = "start"
    /\ LET config == load_config(raw, env_key)
       IN /\ exports' = (IF IsNone(config) THEN exports
                         ELSE resolve_network_exports(env_key, config))
          /\ Outcome("resolve_network_exports", IsNone(config))
    /\ UNCHANGED <<Inputs, value, substituted, urls, resolved, vars_found, required,
                   missing_required, missing_optional, keys_ok>>

\* scripts2/configure.py: main --check-keys
CheckRequiredKeys ==
    /\ op = "start"
    /\ LET config == load_config(raw, env_key)
       IN IF IsNone(config)
          THEN UNCHANGED <<required, missing_required, missing_optional>>
          ELSE LET needed == RequiredKeys(env_key, config)
               IN /\ required' = needed
                  /\ missing_required' = MissingKeys(environ, needed)
                  /\ missing_optional' = MissingKeys(environ, OPTIONAL_KEYS \ needed)
    /\ Outcome("check_required_keys", IsNone(load_config(raw, env_key)))
    /\ UNCHANGED <<Inputs, value, substituted, exports, urls, resolved, vars_found, keys_ok>>

\* scripts/load_config.py --network-urls-only
GetNetworkUrlsJson ==
    /\ op = "start"
    /\ resolved' = get_network_urls_json(environ, LoaderEnv(env_key), raw)
    /\ Outcome("get_network_urls_json", FALSE)
    /\ UNCHANGED <<Inputs, value, substituted, exports, urls, vars_found, required,
                   missing_required, missing_optional, keys_ok>>

\* scripts/load_config.py --export-only: a section that cannot be read is
\* caught, nothing is exported and the result is False
ExportPortsOnly ==
    /\ op = "start"
    /\ LET env_config == DictGet(raw, LoaderEnv(env_key), EmptyDict)
           services == DictGet(env_config, "services", EmptyDict)
           configs == PortConfigs(LoaderEnv(env_key), services)
       IN IF IsNone(env_config)
          THEN /\ UNCHANGED <<exports, urls, resolved>>
               /\ op' = "failed"
               /\ raised' = ""
          ELSE /\ exports' = configs
               /\ urls' = ServiceUrls(configs)
               /\ resolved' = get_network_urls_json(environ, LoaderEnv(env_key), raw)
               /\ Outcome("export_ports_only", FALSE)
    /\ UNCHANGED <<Inputs, value, substituted, vars_found, required,
                   missing_required, missing_optional, keys_ok>>

\* scripts/load_config.py: check_api_keys
CheckApiKeys ==
    /\ op = "start"
    /\ keys_ok' = check_api_keys(environ)
    /\ Outcome("check_api_keys", FALSE)
    /\ UNCHANGED <<Inputs, value, substituted, exports, urls, resolved, vars_found,
                   required, missing_required, missing_optional>>

\* scripts/load_config.py: run. export_env_vars assigns the configs and the
\* URLs to os.environ; print_network_info and check_api_keys read it afterwards.
\* A section that cannot be read exits before anything is written.
Run ==
    /\ op = "start"
    /\ LET env_config == DictGet(raw, LoaderEnv(env_key), EmptyDict)
           services == DictGet(env_config, "services", EmptyDict)
           out == export_env_vars(services)
           written == out.configs @@ out.urls @@ environ
       IN IF IsNone(env_config)
          THEN /\ UNCHANGED <<environ, exports, urls, resolved, keys_ok>>
               /\ op' = "failed"
               /\ raised' = ""
          ELSE /\ environ' = written
               /\ exports' = out.configs
               /\ urls' = out.urls
               /\ resolved' = get_network_urls_json(written, LoaderEnv(env_key), raw)
               /\ keys_ok' = check_api_keys(written)
               /\ Outcome("run", FALSE)
    /\ UNCHANGED <<env_key, raw, value, substituted, vars_found, required,
                   missing_required, missing_optional>>

Next ==
    \/ SubstitutePlaceholders
    \/ SubstituteEnvVariables
    \/ ExtractPlaceholderVars
    \/ BuildNetworks
    \/ ResolveServiceExports
    \/ ResolveNetworkExports
    \/ CheckRequiredKeys
    \/ GetNetworkUrlsJson
    \/ ExportPortsOnly
    \/ CheckApiKeys
    \/ Run

Spec == Init /\ [][Next]_vars

NextSubst ==
    \/ SubstitutePlaceholders
    \/ SubstituteEnvVariables
    \/ ExtractPlaceholderVars
    \/ BuildNetworks
    \/ GetNetworkUrlsJson

SpecSubst == InitSubst /\ [][NextSubst]_vars

-----------------------------------------------------------------------------
(* Shared vocabulary of the claims *)

Development == startswith(env_key, DEV)
Production == startswith(env_key, PROD)

\* the section of the document for the environment
Section == load_config(raw, env_key)
DeclaredServices == DictGet(Section, "services", EmptyDict)

\* text has a placeholder token whose variable is unset
HasUnsetToken(text) ==
    \E i \in 1..Len(finditer(text)) : finditer(text)[i].var \notin DOMAIN environ

CanonicalKeys ==
    {MCP_SERVER_HOST, MCP_SERVER_PORT, BACKEND_HOST, BACKEND_PORT,
     FRONTEND_HOST, FRONTEND_PORT, ANVIL_HOST, ANVIL_PORT}

\* the Environment Defaults table of the specification, section 4.3
DefaultsTable ==
    IF Production
    THEN (MCP_SERVER_HOST :> ANY_ADDR) @@ (MCP_SERVER_PORT :> <<"5","0","0","1">>) @@
         (BACKEND_HOST :> ANY_ADDR) @@ (BACKEND_PORT :> <<"8","0","8","1">>) @@
         (FRONTEND_HOST :> ANY_ADDR) @@ (FRONTEND_PORT :> <<"3","0","0","1">>) @@
         (ANVIL_HOST :> LOOPBACK) @@ (ANVIL_PORT :> P8545)
    ELSE (MCP_SERVER_HOST :> LOOPBACK) @@ (MCP_SERVER_PORT :> P5000) @@
         (BACKEND_HOST :> LOOPBACK) @@ (BACKEND_PORT :> P8080) @@
         (FRONTEND_HOST :> LOCALHOST) @@ (FRONTEND_PORT :> P3000) @@
         (ANVIL_HOST :> LOOPBACK) @@ (ANVIL_PORT :> P8545)

\* where the document declares each canonical key: services.<name>.<field>
KeyPath ==
    (MCP_SERVER_HOST :> <<"mcp_server", "host">>) @@ (MCP_SERVER_PORT :> <<"mcp_server", "port">>) @@
    (BACKEND_HOST :> <<"backend", "host">>) @@ (BACKEND_PORT :> <<"backend", "port">>) @@
    (FRONTEND_HOST :> <<"frontend", "host">>) @@ (FRONTEND_PORT :> <<"frontend", "port">>) @@
    (ANVIL_HOST :> <<"anvil", "host">>) @@ (ANVIL_PORT :> <<"anvil", "port">>)

Declares(k) ==
    /\ KeyPath[k][1] \in DOMAIN DeclaredServices
    /\ KeyPath[k][2] \in DOMAIN DeclaredServices[KeyPath[k][1]]

DeclaredValue(k) == DeclaredServices[KeyPath[k][1]][KeyPath[k][2]]

-----------------------------------------------------------------------------
(* Claims *)

DollarFirst(m) == m.group0[1] = "$"
AsBraceFirst(m) == <<"{", "$">> \o m.var \o <<"}">>
AsDollarFirst(m) == <<"$", "{">> \o m.var \o <<"}">>

\* what a token becomes: "value" is the value of a set variable and the token
\* as written for an unset one; the others rewrite the token's syntax
TokenText(how, m) ==
    CASE how = "value" -> IF m.var \in DOMAIN environ THEN environ[m.var] ELSE m.group0
      [] how = "brace_first" -> IF DollarFirst(m) THEN AsBraceFirst(m) ELSE m.group0
      [] how = "dollar_first" -> IF DollarFirst(m) THEN m.group0 ELSE AsDollarFirst(m)

\* the text from position pos with each token of matches replaced
RECURSIVE TokenwiseFrom(_, _, _, _)
TokenwiseFrom(text, pos, matches, how) ==
    IF Len(matches) = 0 THEN SubSeq(text, pos, Len(text))
    ELSE SubSeq(text, pos, matches[1].start - 1) \o TokenText(how, matches[1])
            \o TokenwiseFrom(text, matches[1].end + 1, Tail(matches), how)

Tokenwise(text, how) == TokenwiseFrom(text, 1, finditer(text), how)

TokenVars(text) == MatchVars(finditer(text))
AllTokensSet(text) == TokenVars(text) \subseteq DOMAIN environ

TokensStandApart(text) ==
    \A i \in 1..Len(finditer(text)) :
        LET m == finditer(text)[i]
        IN m.start > 1 =>
              text[m.start - 1] # (IF DollarFirst(m) THEN "$" ELSE "{")

HasValue(name) == name \in DOMAIN environ /\ Len(environ[name]) > 0

\* <NETWORK_NAME_UPPERCASED>_ALCHEMY_API_KEY
OwnKeyName(name) ==
    IF name = FOO THEN FOO_ALCHEMY_API_KEY ELSE upper(name) \o ALCHEMY_SUFFIX

TrailingSlashes(text) ==
    CHOOSE n \in 0..Len(text) :
        /\ \A i \in (Len(text) - n + 1)..Len(text) : text[i] = "/"
        /\ n < Len(text) => text[Len(text) - n] # "/"

Base(text) == SubSeq(text, 1, Len(text) - TrailingSlashes(text))

\* the URL production gives a network other than testnet, for a credential
Joined(name, credential) ==
    Base(Tokenwise(EntryText(Networks[name]), "value")) \o <<"/">> \o credential

\* C9 as claimed: the credential is the network's own key when that variable
\* is set, and ALCHEMY_API_KEY only otherwise.
C9_OwnKeyWhenSet ==
    (op = "build_networks" /\ Production) =>
        \A name \in (DOMAIN Networks \cap DOMAIN resolved) \ {TESTNET} :
            resolved[name] =
                Joined(name, IF OwnKeyName(name) \in DOMAIN environ
                             THEN environ[OwnKeyName(name)]
                             ELSE getenv1(environ, ALCHEMY_API_KEY))

\* C9 amended: in production the URL of a network other than testnet is the
\* substituted URL without its trailing slashes, one "/", and the credential:
\* the network's own key when that variable has a non-empty value, and
\* ALCHEMY_API_KEY only otherwise; https://foo.example/ with
\* FOO_ALCHEMY_API_KEY=abc123 gives https://foo.example/abc123, and the
\* character before the joining "/" is never a "/".
C9_OwnKeyWhenNonEmpty ==
    (op = "build_networks" /\ Production) =>
        /\ \A name \in (DOMAIN Networks \cap DOMAIN resolved) \ {TESTNET} :
              LET credential == IF HasValue(OwnKeyName(name))
                                THEN environ[OwnKeyName(name)]
                                ELSE getenv1(environ, ALCHEMY_API_KEY)
                  joint == Len(resolved[name]) - Len(credential)
              IN /\ resolved[name] = Joined(name, credential)
                 /\ resolved[name][joint] = "/"
                 /\ joint > 1 => resolved[name][joint - 1] # "/"
        /\ (/\ FOO \in DOMAIN Networks
            /\ Networks[FOO] = StrVal(FOO_TEMPLATE)
            /\ FOO_ALCHEMY_API_KEY \in DOMAIN environ
            /\ environ[FOO_ALCHEMY_API_KEY] = ABC123)
              => (FOO \in DOMAIN resolved /\ resolved[FOO] = FOO_RESULT)

\* C9 witness: both keys have a value and the URL ends in the network's own
C9_Witness ==
    /\ op = "build_networks"
    /\ Production
    /\ FOO \in DOMAIN Networks
    /\ Networks[FOO] = StrVal(FOO_TEMPLATE \o <<"/">>)
    /\ HasValue(FOO_ALCHEMY_API_KEY)
    /\ HasValue(ALCHEMY_API_KEY)
    /\ FOO \in DOMAIN resolved
    /\ resolved[FOO] = FOO_RESULT

\* an entry of the data model: a URL string, or a structure whose url is a string
WellFormed(entry) ==
    \/ entry.t = "str"
    \/ entry.t = "dict" /\ "url" \in DOMAIN entry.v /\ entry.v["url"].t = "str"

\* the URL template of a well-formed entry: the string itself, or the url field
UrlTemplate(entry) == IF entry.t = "str" THEN entry.v ELSE entry.v["url"].v

CarriesUrl(entry) ==
    \/ entry.t = "str"
    \/ entry.t = "dict" /\ "url" \in DOMAIN entry.v

\* C11: key discovery returns for every document, no exception escaping from
\* it, and the names it returns are those of the tokens in the URLs of the
\* entries that carry one: an entry that is neither a string nor a structure
\* with a url field (a structure without url, a list, a number) adds no name,
\* whatever text is inside it.
C11_MalformedEntryAddsNoName ==
    /\ raised # "extract_placeholder_vars"
    /\ op = "extract_placeholder_vars" =>
          vars_found = UNION {TokenVars(EntryText(Networks[name])) :
                                name \in {n \in DOMAIN Networks : CarriesUrl(Networks[n])}}

\* the keys a list holds
Elements(list) == {list[i] : i \in 1..Len(list)}

\* a comes before b in lexicographic order of character codes: at the first
\* position where they differ a has ended, or a's character is the smaller
Precedes(a, b) ==
    \E i \in 1..(Len(b)) :
        /\ \A j \in 1..(i - 1) : j <= Len(a) /\ a[j] = b[j]
        /\ (i > Len(a) \/ Ord(a[i]) < Ord(b[i]))

\* each element comes before the next: ascending, and no key twice
Ascending(list) == \A i \in 1..(Len(list) - 1) : Precedes(list[i], list[i + 1])

C13_RunIsPure ==
    [][/\ environ' = environ
       /\ raw' = raw
       /\ op' = "run" =>
             /\ resolved' = get_network_urls_json(environ, LoaderEnv(env_key), raw)
             /\ keys_ok' = check_api_keys(environ)]_vars

\* a malformed entry: a structure without url, a value that is not a string,
\* or a URL template with a token whose variable is unset
Malformed(entry) == ~CarriesUrl(entry) \/ HasUnsetToken(EntryText(entry))

\* the section, and the document, without the network name
SectionWithout(name) ==
    ("networks" :> [n \in DOMAIN Networks \ {name} |-> Networks[n]]) @@ Section

DocumentWithoutNetwork(name) == (LoaderEnv(env_key) :> SectionWithout(name)) @@ raw

\* two network maps agree on every network but name: the same ones are
\* included, with the same URLs
AgreeExcept(name, with, without) ==
    /\ DOMAIN with \ {name} = DOMAIN without \ {name}
    /\ \A n \in DOMAIN with \ {name} : with[n] = without[n]

\* C14: network resolution of a document that has a malformed entry raises no
\* error, and every other network is included exactly when it is included
\* for the document without that entry, with the same URL.
C14_EntriesIndependent ==
    /\ (\E name \in DOMAIN Networks : Malformed(Networks[name]))
          => raised \notin {"build_networks", "get_network_urls_json"}
    /\ op = "build_networks" =>
          \A name \in {n \in DOMAIN Networks : Malformed(Networks[n])} :
              AgreeExcept(name, resolved,
                          build_networks(env_key, environ, SectionWithout(name)))
    /\ op = "get_network_urls_json" =>
          \A name \in {n \in DOMAIN Networks : Malformed(Networks[n])} :
              AgreeExcept(name, resolved,
                          get_network_urls_json(environ, LoaderEnv(env_key),
                                                DocumentWithoutNetwork(name)))

\* C14 witness: in production custom is a list and is left out, foo beside it
\* has its URL with the credential, and testnet has the fallback
C14_Witness ==
    /\ op = "build_networks"
    /\ Production
    /\ DOMAIN Networks = {FOO, CUSTOM}
    /\ Networks[FOO] = StrVal(FOO_TEMPLATE)
    /\ Networks[CUSTOM] = ListVal(<<StrVal(CUSTOM_TEMPLATE)>>)
    /\ Malformed(Networks[CUSTOM])
    /\ HasValue(FOO_ALCHEMY_API_KEY)
    /\ DOMAIN resolved = {FOO, TESTNET}
    /\ resolved[FOO] = FOO_RESULT

\* the networks credential injection does not apply to: every network in
\* development, testnet in production
NoInjection(name) == Development \/ name = TESTNET

\* the template of the network with every token replaced as C5 states
SubstitutedTemplate(name) == Tokenwise(EntryText(Networks[name]), "value")

HasBracePair(text) == Contains(text, "{") /\ Contains(text, "}")

=============================================================================
